---- MODULE Spec2Model ----
(***************************************************************************)
(* Verification model of the mq message queue library.                     *)
(*                                                                         *)
(* Part 1: the two-semaphore Queue (mq::Queue with sync::Synchronizer and  *)
(* sem::Semaphore).  Producer threads call Queue::load, receiver threads   *)
(* call Queue::process, a control thread calls Queue::set_mode.  Every     *)
(* step that another thread can interleave with is a separate action:      *)
(* the semaphore's critical section (under Semaphore::m), the queue's      *)
(* critical section (under Queue::mutex), the unlock, the release and the  *)
(* notify_all.                                                             *)
(* Part 2: sem::Semaphore on its own.                                      *)
(* Part 3: the mutex-only Queue (messageQueue.hpp, Queue with set_size).   *)
(* Part 4: the policy-based Producer and Receiver (messageQueue.hpp).      *)
(***************************************************************************)
EXTENDS Integers, Sequences, FiniteSets, TLC

\* ---------------------------------------------------------------- bounds
MaxMsgs == 3
MaxSize == 3
MaxSlots == 2
\* the largest argument of Producer::set_max_len
MaxLen == 2
\* the largest timeout passed to set_blocking, in clock ticks
MaxTimeout == 1

Producers == {"p1", "p2"}
Receivers == {"r1"}
Controller == "main"
Threads == Producers \cup Receivers \cup {Controller}
\* the threads that use the stand-alone semaphore
SemThreads == {"t1", "t2", "t3"}

NoThread == "none"
\* the value of the variables of an object that the program under a
\* specification does not construct: each specification follows one of the
\* repository's variants alone
Absent == "absent"
NoMsg == 0

\* Mode::FIFO, Mode::LIFO
Mode == {"FIFO", "LIFO"}

\* the messages the producers send, all distinct: the k-th call of load,
\* by whichever producer, is passed message k
Msgs == 1..MaxMsgs

\* MessageReader: any predicate over messages
Readers == [Msgs -> BOOLEAN]

\* constructor argument max_size_: the smallest capacity, a capacity of two
\* slots, which more messages than that can be sent to, and the largest
Capacities == {1, 2, MaxSize}

VARIABLES
    max_size,      \* Queue::max_size
    msg_queue,     \* Queue::msg_queue (DerivedQueue::queue), front first
    queue_mode,    \* Queue::queue_manipulator, by its Mode
    mutex,         \* Queue::mutex: the thread that holds it, or NoThread
    count_full,    \* Queue::count_full.slots
    count_empty,   \* Queue::count_empty.slots
    pc,            \* where each thread is in its call
    ret,           \* the value each thread's last load/process returned
    cand,          \* the message process obtained from get(), per receiver
    sent,          \* how many messages the producers have passed to load
    msg,           \* the argument of each producer's current load call
    pushed,        \* history: messages in the order push inserted them
    removed,       \* history: <<message, mode>> in the order pop removed them
    rejected,      \* history: some reader has returned false
    max_slots,     \* Semaphore::max_slots of the stand-alone semaphore
    slots,         \* Semaphore::slots of the stand-alone semaphore
    sem_pc,        \* where each thread using the stand-alone semaphore is
    mq,            \* the mutex-only Queue object, by its data members
    mq_thr,        \* the threads that call the mutex-only Queue
    producer,      \* the policy-based Producer object, by its data members
    receiver,      \* the policy-based Receiver object, by its data members
    sender,        \* the thread that calls Producer::send
    listener,      \* the thread that calls Receiver::listen
    wiring         \* the thread that calls Producer::attach, Receiver::detach

queueVars == <<max_size, msg_queue, queue_mode, mutex, count_full,
               count_empty, pc, ret, cand, sent, msg, pushed,
               removed, rejected>>
semVars == <<max_slots, slots, sem_pc>>
mqVars == <<mq, mq_thr>>
polVars == <<producer, receiver, sender, listener, wiring>>
vars == <<queueVars, semVars, mqVars, polVars>>
\* what the actions of each part leave alone
outsideQueue == <<semVars, mqVars, polVars>>
outsideSem == <<queueVars, mqVars, polVars>>
outsideMq == <<queueVars, semVars, polVars>>
outsidePol == <<queueVars, semVars, mqVars>>

\* ------------------------------------------------------------ containers
\* mutant: push inserts at the front
push_back_front(q, m) == <<m>> \o q
\* DerivedQueue::push -> queue.push_back
push_back(q, m) == Append(q, m)
\* mutant: pop_front leaves the container as it is
pop_front_noop(q) == q
\* DerivedQueue::pop_front
pop_front(q) == Tail(q)
\* DerivedQueue::pop_back
pop_back(q) == SubSeq(q, 1, Len(q) - 1)
\* DerivedQueue::front
front(q) == q[1]
\* DerivedQueue::back
back(q) == q[Len(q)]

\* mutant: both manipulators read the front
get_front(mode, q) == front(q)
\* QueueManipulatorFIFO::get / QueueManipulatorLIFO::get
get(mode, q) == IF mode = "FIFO" THEN front(q) ELSE back(q)
\* mutant: both manipulators pop the back
pop_always_back(mode, q) == pop_back(q)
\* QueueManipulatorFIFO::pop / QueueManipulatorLIFO::pop
pop(mode, q) == IF mode = "FIFO" THEN pop_front(q) ELSE pop_back(q)

\* the set of messages stored in a container
Range(q) == {q[i] : i \in 1..Len(q)}
\* the messages of q that are no longer in q2, in q's order
Popped(q, q2) == SelectSeq(q, LAMBDA m : m \notin Range(q2))
\* the history entries for the messages removed under mode
Logged(ms, mode) == [i \in 1..Len(ms) |-> <<ms[i], mode>>]

\* mutant: full never reports a full container
full_never(q, n) == FALSE
\* Queue::full
full(q, n) == Len(q) = n
\* Queue::push: the queue after push, and push's return value
push(q, n, m) == IF full(q, n) THEN q ELSE push_back(q, m)
pushResult(q, n) == ~full(q, n)

\* ------------------------------------------------------------- semaphore
\* Semaphore::acquire: the predicate of cv.wait, [&]{ return slots > 0; }
CanAcquire(s) == s > 0
\* mutant: acquire leaves slots as it is
Acquired_keep(s) == s
\* Semaphore::acquire: --slots
Acquired(s) == s - 1
\* Semaphore::release: if (slots < max_slots) ++slots
\* mutant: release increments without testing slots < max_slots
Released_unclamped(s, n) == s + 1
\* mutant: release forgets the increment
Released_none(s, n) == s
Released(s, n) == IF s < n THEN s + 1 ELSE s
\* mutant: release wakes nobody
notify_none(pcs, waiters) == pcs
\* Semaphore::release: cv.notify_all() ends the cv.wait of every thread of
\* waiters that is blocked in it; pcs maps each thread to its position
notify_all(pcs, waiters) ==
    [t \in DOMAIN pcs |-> IF t \in waiters /\ pcs[t] = "wait"
                            THEN "acquire" ELSE pcs[t]]

\* mutant: count_full starts with every slot available
InitialFull_max(n) == n
\* Queue::Queue: count_full{max_size_, 0}
InitialFull(n) == 0
\* mutant: count_empty starts with no slot available
InitialEmpty_zero(n) == 0
\* Queue::Queue: count_empty{max_size_, max_size_}
InitialEmpty(n) == n

\* ------------------------------------------------------------------ Init
\* Queue::Queue with an empty container; queue_manipulator starts LIFO
QueueInit ==
    /\ max_size \in Capacities
    /\ msg_queue = <<>>
    /\ queue_mode = "LIFO"
    /\ mutex = NoThread
    /\ count_full = InitialFull(max_size)
    /\ count_empty = InitialEmpty(max_size)
    /\ pc = [t \in Threads |-> "idle"]
    /\ ret = [t \in Producers \cup Receivers |-> FALSE]
    /\ cand = [r \in Receivers |-> NoMsg]
    /\ sent = 0
    /\ msg = [p \in Producers |-> NoMsg]
    /\ pushed = <<>>
    /\ removed = <<>>
    /\ rejected = FALSE

\* the stand-alone semaphore is not used by the threads of the Queue
SemUnused ==
    /\ max_slots = Absent
    /\ slots = Absent
    /\ sem_pc = Absent

\* mutex-only Queue: std::size_t max_size{1000}
DefaultMaxSize == 1000

\* mutex-only Queue::Queue with an empty container: queue_manipulator starts
\* LIFO, max_size{1000}, the mutex is free
NewQueue ==
    [max_size |-> DefaultMaxSize, msg_queue |-> <<>>, queue_mode |-> "LIFO",
     mutex |-> NoThread]
\* no thread has called the mutex-only Queue
NoQueueCalls ==
    [pc |-> [t \in Producers \cup Receivers |-> "idle"],
     ret |-> [t \in Producers \cup Receivers |-> FALSE],
     cand |-> [r \in Receivers |-> NoMsg],
     msg |-> [p \in Producers |-> NoMsg],
     sent |-> 0]

\* Producer() = default: max_queue_size{0}, an empty message_queue, queue_rw
\* free, full_queue_policy{FullQueuePolicy::DO_NOTHING}
NewProducer ==
    [max_queue_size |-> 0, message_queue |-> <<>>, queue_rw |-> NoThread,
     full_queue_policy |-> "DO_NOTHING"]
\* long int timeout{120}; float wait_time{1.};
DefaultTimeout == 120
DefaultWaitTime == 1
\* mutant: a new Receiver does not report itself detached
InitialDetached_false == FALSE
\* bool is_detached{true}
InitialDetached == TRUE
\* Receiver: message_queue{nullptr} and queue_rw{nullptr} (the field is TRUE
\* when the pointer is set), queue_mode{Mode::FIFO}, is_blocking{false},
\* is_detached{true}, timeout{120}, wait_time{1.},
\* empty_queue_policy{EmptyQueuePolicy::DO_NOTHING}
NewReceiver ==
    [message_queue |-> FALSE, queue_rw |-> FALSE, queue_mode |-> "FIFO",
     is_blocking |-> FALSE, is_detached |-> InitialDetached,
     timeout |-> DefaultTimeout, wait_time |-> DefaultWaitTime,
     empty_queue_policy |-> "DO_NOTHING"]
\* both of the receiver's pointers are set
wired(r) == r.message_queue /\ r.queue_rw
\* the messages passed to Producer::send, and no message
PolMsgs == {"A", "B", "C"}
NoMessage == "-"
\* Receiver::consumed: any predicate over messages
Consumers == [PolMsgs -> BOOLEAN]
\* no send is in progress
NoSend ==
    [pc |-> "idle", message |-> NoMessage, before |-> <<>>, result |-> "none"]
\* no listen is in progress; elapsed is the time since get_message_blocking
\* took its start time, sleep_left the rest of the current sleep_for
NoListen ==
    [pc |-> "idle", message |-> NoMessage, before |-> <<>>, result |-> "none",
     elapsed |-> 0, sleep_left |-> 0]
\* no attach or detach is in progress, and none has been called
NoWiring == [pc |-> "idle", attach_called |-> FALSE, detach_called |-> FALSE]

\* the mutex-only Queue is not used
MqUnused ==
    /\ mq = Absent
    /\ mq_thr = Absent

\* the policy-based Producer and Receiver are not used
PolUnused ==
    /\ producer = Absent
    /\ receiver = Absent
    /\ sender = Absent
    /\ listener = Absent
    /\ wiring = Absent

Init == QueueInit /\ SemUnused /\ MqUnused /\ PolUnused

\* --------------------------------------------------------------- actions
\* Producer::send -> Queue::load is entered with the producer's next message
CallLoad(p) ==
    /\ pc[p] = "idle"
    /\ sent < MaxMsgs
    /\ sent' = sent + 1
    /\ msg' = [msg EXCEPT ![p] = sent + 1]
    /\ pc' = [pc EXCEPT ![p] = "acquire"]
    /\ UNCHANGED <<max_size, msg_queue, queue_mode, mutex, count_full,
                   count_empty, ret, cand, pushed, removed, rejected,
                   outsideQueue>>

\* Receiver::listen -> Queue::process is entered
CallProcess(r) ==
    /\ pc[r] = "idle"
    /\ pc' = [pc EXCEPT ![r] = "acquire"]
    /\ UNCHANGED <<max_size, msg_queue, queue_mode, mutex, count_full,
                   count_empty, ret, cand, sent, msg, pushed, removed,
                   rejected, outsideQueue>>

\* Synchronizer::Synchronizer, sem_a.acquire(): one pass through the
\* semaphore's critical section.  load waits on count_empty, process on
\* count_full.  With no slot the thread enters cv.wait, which releases
\* Semaphore::m and blocks in one atomic step.
AcquireEmpty(p) ==
    /\ pc[p] = "acquire"
    /\ IF CanAcquire(count_empty)
         THEN /\ count_empty' = Acquired(count_empty)
              /\ pc' = [pc EXCEPT ![p] = "lock"]
         ELSE /\ count_empty' = count_empty
              /\ pc' = [pc EXCEPT ![p] = "wait"]
    /\ UNCHANGED <<max_size, msg_queue, queue_mode, mutex, count_full, ret,
                   cand, sent, msg, pushed, removed, rejected, outsideQueue>>

AcquireFull(r) ==
    /\ pc[r] = "acquire"
    /\ IF CanAcquire(count_full)
         THEN /\ count_full' = Acquired(count_full)
              /\ pc' = [pc EXCEPT ![r] = "lock"]
         ELSE /\ count_full' = count_full
              /\ pc' = [pc EXCEPT ![r] = "wait"]
    /\ UNCHANGED <<max_size, msg_queue, queue_mode, mutex, count_empty,
                   ret, cand, sent, msg, pushed, removed, rejected,
                   outsideQueue>>

\* std::condition_variable::wait may return without a notification; the
\* thread then re-enters the semaphore's critical section and re-tests
SpuriousWakeup(t) ==
    /\ pc[t] = "wait"
    /\ pc' = [pc EXCEPT ![t] = "acquire"]
    /\ UNCHANGED <<max_size, msg_queue, queue_mode, mutex, count_full,
                   count_empty, ret, cand, sent, msg, pushed, removed,
                   rejected, outsideQueue>>

\* mutant: lock() succeeds while another thread holds the mutex
Lock_barging(t) ==
    /\ pc[t] = "lock"
    /\ mutex' = t
    /\ pc' = [pc EXCEPT ![t] = "crit"]
    /\ UNCHANGED <<max_size, msg_queue, queue_mode, count_full,
                   count_empty, ret, cand, sent, msg, pushed, removed,
                   rejected, outsideQueue>>

\* Synchronizer::Synchronizer, lck.lock()
Lock(t) ==
    /\ pc[t] = "lock"
    /\ mutex = NoThread
    /\ mutex' = t
    /\ pc' = [pc EXCEPT ![t] = "crit"]
    /\ UNCHANGED <<max_size, msg_queue, queue_mode, count_full,
                   count_empty, ret, cand, sent, msg, pushed, removed,
                   rejected, outsideQueue>>

\* Queue::load: return push(msg)
LoadBody(p) ==
    /\ pc[p] = "crit"
    /\ mutex = p
    /\ msg_queue' = push(msg_queue, max_size, msg[p])
    /\ ret' = [ret EXCEPT ![p] = pushResult(msg_queue, max_size)]
    /\ pushed' = IF pushResult(msg_queue, max_size)
                   THEN Append(pushed, msg[p]) ELSE pushed
    /\ pc' = [pc EXCEPT ![p] = "unlock"]
    /\ UNCHANGED <<max_size, queue_mode, mutex, count_full, count_empty,
                   cand, sent, msg, removed, rejected, outsideQueue>>

\* Queue::process: if (msg_queue->empty()) return false; otherwise the
\* message at the extraction end is obtained with get()
ProcessGet(r) ==
    /\ pc[r] = "crit"
    /\ mutex = r
    /\ IF msg_queue = <<>>
         THEN /\ ret' = [ret EXCEPT ![r] = FALSE]
              /\ cand' = cand
              /\ pc' = [pc EXCEPT ![r] = "unlock"]
         ELSE /\ ret' = ret
              /\ cand' = [cand EXCEPT ![r] = get(queue_mode, msg_queue)]
              /\ pc' = [pc EXCEPT ![r] = "apply"]
    /\ UNCHANGED <<max_size, msg_queue, queue_mode, mutex, count_full,
                   count_empty, sent, msg, pushed, removed, rejected,
                   outsideQueue>>

\* Queue::process: if (reader(msg)) { pop(); return true; } return false;
ProcessApply(r) ==
    /\ pc[r] = "apply"
    /\ mutex = r
    /\ \E reader \in Readers :
         IF reader[cand[r]]
           THEN /\ msg_queue' = pop(queue_mode, msg_queue)
                /\ removed' = removed \o
                       Logged(Popped(msg_queue, msg_queue'), queue_mode)
                /\ ret' = [ret EXCEPT ![r] = TRUE]
                /\ rejected' = rejected
           ELSE /\ msg_queue' = msg_queue
                /\ removed' = removed
                /\ ret' = [ret EXCEPT ![r] = FALSE]
                /\ rejected' = TRUE
    /\ cand' = [cand EXCEPT ![r] = NoMsg]
    /\ pc' = [pc EXCEPT ![r] = "unlock"]
    /\ UNCHANGED <<max_size, queue_mode, mutex, count_full, count_empty,
                   sent, msg, pushed, outsideQueue>>

\* mutant: the guard goes on to sem_b.release() with the mutex still held
Unlock_late(t) ==
    /\ pc[t] = "unlock"
    /\ mutex = t
    /\ pc' = [pc EXCEPT ![t] = "release"]
    /\ UNCHANGED <<max_size, msg_queue, queue_mode, mutex, count_full,
                   count_empty, ret, cand, sent, msg, pushed, removed,
                   rejected, outsideQueue>>

\* Synchronizer::~Synchronizer, lck.unlock()
Unlock(t) ==
    /\ pc[t] = "unlock"
    /\ mutex = t
    /\ mutex' = NoThread
    /\ pc' = [pc EXCEPT ![t] = "release"]
    /\ UNCHANGED <<max_size, msg_queue, queue_mode, count_full,
                   count_empty, ret, cand, sent, msg, pushed, removed,
                   rejected, outsideQueue>>

\* Synchronizer::~Synchronizer, sem_b.release(): the semaphore's critical
\* section.  load releases count_full, process releases count_empty.
ReleaseFull(p) ==
    /\ pc[p] = "release"
    /\ count_full' = Released(count_full, max_size)
    /\ pc' = [pc EXCEPT ![p] = "notify"]
    /\ UNCHANGED <<max_size, msg_queue, queue_mode, mutex, count_empty,
                   ret, cand, sent, msg, pushed, removed, rejected,
                   outsideQueue>>

ReleaseEmpty(r) ==
    /\ pc[r] = "release"
    /\ count_empty' = Released(count_empty, max_size)
    /\ pc' = [pc EXCEPT ![r] = "notify"]
    /\ UNCHANGED <<max_size, msg_queue, queue_mode, mutex, count_full, ret,
                   cand, sent, msg, pushed, removed, rejected, outsideQueue>>

\* Semaphore::release, cv.notify_all(): every thread waiting on that
\* semaphore's condition variable wakes up; the call returns

NotifyFull(p) ==
    /\ pc[p] = "notify"
    /\ pc' = [notify_all(pc, Receivers) EXCEPT ![p] = "idle"]
    /\ UNCHANGED <<max_size, msg_queue, queue_mode, mutex, count_full,
                   count_empty, ret, cand, sent, msg, pushed, removed,
                   rejected, outsideQueue>>

NotifyEmpty(r) ==
    /\ pc[r] = "notify"
    /\ pc' = [notify_all(pc, Producers) EXCEPT ![r] = "idle"]
    /\ UNCHANGED <<max_size, msg_queue, queue_mode, mutex, count_full,
                   count_empty, ret, cand, sent, msg, pushed, removed,
                   rejected, outsideQueue>>

\* Queue::set_mode: std::lock_guard lck{mutex}
SetModeLock ==
    /\ pc[Controller] = "idle"
    /\ mutex = NoThread
    /\ mutex' = Controller
    /\ pc' = [pc EXCEPT ![Controller] = "crit"]
    /\ UNCHANGED <<max_size, msg_queue, queue_mode, count_full,
                   count_empty, ret, cand, sent, msg, pushed, removed,
                   rejected, outsideQueue>>

\* mutant: set_mode leaves the manipulator as it is
new_manipulator_keep(mode, new_mode) == mode
\* Queue::set_mode: the switch resets queue_manipulator to a manipulator of
\* new_mode; default: break leaves it
new_manipulator(mode, new_mode) ==
    IF new_mode = "FIFO" THEN "FIFO"
    ELSE IF new_mode = "LIFO" THEN "LIFO"
    ELSE mode

\* Queue::set_mode(new_mode): the switch, then lck is destroyed
SetModeBody(new_mode) ==
    /\ pc[Controller] = "crit"
    /\ mutex = Controller
    /\ queue_mode' = new_manipulator(queue_mode, new_mode)
    /\ mutex' = NoThread
    /\ pc' = [pc EXCEPT ![Controller] = "idle"]
    /\ UNCHANGED <<max_size, msg_queue, count_full, count_empty, ret, cand,
                   sent, msg, pushed, removed, rejected, outsideQueue>>

Next ==
    \/ \E p \in Producers : CallLoad(p)
    \/ \E r \in Receivers : CallProcess(r)
    \/ \E p \in Producers : AcquireEmpty(p)
    \/ \E r \in Receivers : AcquireFull(r)
    \/ \E t \in Producers \cup Receivers : SpuriousWakeup(t)
    \/ \E t \in Producers \cup Receivers : Lock(t)
    \/ \E p \in Producers : LoadBody(p)
    \/ \E r \in Receivers : ProcessGet(r)
    \/ \E r \in Receivers : ProcessApply(r)
    \/ \E t \in Producers \cup Receivers : Unlock(t)
    \/ \E p \in Producers : ReleaseFull(p)
    \/ \E r \in Receivers : ReleaseEmpty(r)
    \/ \E p \in Producers : NotifyFull(p)
    \/ \E r \in Receivers : NotifyEmpty(r)
    \/ SetModeLock
    \/ \E new_mode \in Mode : SetModeBody(new_mode)

Spec == Init /\ [][Next]_vars

\* the scheduler runs every thread that is not blocked: a thread inside a
\* call takes its next step.  Nothing forces a thread to call the queue,
\* and nothing forces a spurious wakeup.
Fairness ==
    /\ \A p \in Producers :
          /\ WF_vars(AcquireEmpty(p))
          /\ WF_vars(LoadBody(p))
          /\ WF_vars(ReleaseFull(p))
          /\ WF_vars(NotifyFull(p))
    /\ \A r \in Receivers :
          /\ WF_vars(AcquireFull(r))
          /\ WF_vars(ProcessGet(r))
          /\ WF_vars(ProcessApply(r))
          /\ WF_vars(ReleaseEmpty(r))
          /\ WF_vars(NotifyEmpty(r))
    /\ \A t \in Producers \cup Receivers :
          /\ WF_vars(Lock(t))
          /\ WF_vars(Unlock(t))
    /\ WF_vars(\E new_mode \in Mode : SetModeBody(new_mode))

FairSpec == Init /\ [][Next]_vars /\ Fairness

\* Queue::Queue with a container that already holds messages: the
\* constructor moves the container in and sets both semaphores from
\* max_size_ alone.  The container's k messages bear the numbers 1..k and
\* the producers number theirs from k + 1.
PreloadedInit ==
    /\ max_size \in Capacities
    /\ \E k \in 0..max_size :
          /\ k <= MaxMsgs
          /\ msg_queue = [i \in 1..k |-> i]
          /\ sent = k
    /\ queue_mode = "LIFO"
    /\ mutex = NoThread
    /\ count_full = InitialFull(max_size)
    /\ count_empty = InitialEmpty(max_size)
    /\ pc = [t \in Threads |-> "idle"]
    /\ ret = [t \in Producers \cup Receivers |-> FALSE]
    /\ cand = [r \in Receivers |-> NoMsg]
    /\ msg = [p \in Producers |-> NoMsg]
    /\ pushed = <<>>
    /\ removed = <<>>
    /\ rejected = FALSE
    /\ SemUnused
    /\ MqUnused
    /\ PolUnused

\* the two-semaphore Queue constructed from any container within capacity
PreloadedSpec == PreloadedInit /\ [][Next]_vars

(***************************************************************************)
(* Part 2: sem::Semaphore on its own.  Each thread of SemThreads calls     *)
(* acquire() or release() on one semaphore, in any order.                  *)
(***************************************************************************)
\* the Queue is not used by the threads of the stand-alone semaphore
QueueUnused ==
    /\ max_size = Absent
    /\ msg_queue = Absent
    /\ queue_mode = Absent
    /\ mutex = Absent
    /\ count_full = Absent
    /\ count_empty = Absent
    /\ pc = Absent
    /\ ret = Absent
    /\ cand = Absent
    /\ sent = Absent
    /\ msg = Absent
    /\ pushed = Absent
    /\ removed = Absent
    /\ rejected = Absent

\* Semaphore::Semaphore(max_slots_, slots_)
SemaphoreInit ==
    /\ max_slots \in 1..MaxSlots
    /\ slots \in 0..max_slots
    /\ sem_pc = [t \in SemThreads |-> "idle"]

SemInit == SemaphoreInit /\ QueueUnused /\ MqUnused /\ PolUnused

\* a thread calls Semaphore::acquire
SemCallAcquire(t) ==
    /\ sem_pc[t] = "idle"
    /\ sem_pc' = [sem_pc EXCEPT ![t] = "acquire"]
    /\ UNCHANGED <<max_slots, slots, outsideSem>>

\* Semaphore::acquire: under Semaphore::m the predicate is tested; the
\* thread either takes a slot and returns, or blocks in cv.wait
SemAcquire(t) ==
    /\ sem_pc[t] = "acquire"
    /\ IF CanAcquire(slots)
         THEN /\ slots' = Acquired(slots)
              /\ sem_pc' = [sem_pc EXCEPT ![t] = "idle"]
         ELSE /\ slots' = slots
              /\ sem_pc' = [sem_pc EXCEPT ![t] = "wait"]
    /\ UNCHANGED <<max_slots, outsideSem>>

\* cv.wait returns without a notification
SemSpuriousWakeup(t) ==
    /\ sem_pc[t] = "wait"
    /\ sem_pc' = [sem_pc EXCEPT ![t] = "acquire"]
    /\ UNCHANGED <<max_slots, slots, outsideSem>>

\* a thread calls Semaphore::release
SemCallRelease(t) ==
    /\ sem_pc[t] = "idle"
    /\ sem_pc' = [sem_pc EXCEPT ![t] = "release"]
    /\ UNCHANGED <<max_slots, slots, outsideSem>>

\* Semaphore::release: under Semaphore::m, if (slots < max_slots) ++slots
SemRelease(t) ==
    /\ sem_pc[t] = "release"
    /\ slots' = Released(slots, max_slots)
    /\ sem_pc' = [sem_pc EXCEPT ![t] = "notify"]
    /\ UNCHANGED <<max_slots, outsideSem>>

\* Semaphore::release: cv.notify_all(), then the call returns
SemNotify(t) ==
    /\ sem_pc[t] = "notify"
    /\ sem_pc' = [notify_all(sem_pc, SemThreads) EXCEPT ![t] = "idle"]
    /\ UNCHANGED <<max_slots, slots, outsideSem>>

SemNext ==
    \/ \E t \in SemThreads : SemCallAcquire(t)
    \/ \E t \in SemThreads : SemAcquire(t)
    \/ \E t \in SemThreads : SemSpuriousWakeup(t)
    \/ \E t \in SemThreads : SemCallRelease(t)
    \/ \E t \in SemThreads : SemRelease(t)
    \/ \E t \in SemThreads : SemNotify(t)

\* the scheduler runs every thread that is not blocked: a thread inside
\* acquire or release takes its next step; nothing forces a thread to call
\* the semaphore, and nothing forces a spurious wakeup
SemFairness ==
    \A t \in SemThreads :
        /\ WF_vars(SemAcquire(t))
        /\ WF_vars(SemRelease(t))
        /\ WF_vars(SemNotify(t))

SemSpec == SemInit /\ [][SemNext]_vars /\ SemFairness

(***************************************************************************)
(* Part 3: the mutex-only Queue of messageQueue.hpp.  load and process     *)
(* hold Queue::mutex through a std::lock_guard; set_size and set_mode      *)
(* write their member without taking the mutex, at any time.               *)
(***************************************************************************)
\* mutant: process pops whatever the reader returned
after_reader_pop(mode, q, accepted) == pop(mode, q)
\* Queue::process: if (reader(msg)) { pop(); return true; } return false;
\* the container after the reader has returned accepted
after_reader(mode, q, accepted) == IF accepted THEN pop(mode, q) ELSE q

MqInit ==
    /\ mq = NewQueue
    /\ mq_thr = NoQueueCalls
    /\ QueueUnused
    /\ SemUnused
    /\ PolUnused

\* Producer::send -> Queue::load with the producer's next message:
\* std::lock_guard lck{mutex}
MqLoadLock(p) ==
    /\ mq_thr.pc[p] = "idle"
    /\ mq_thr.sent < MaxMsgs
    /\ mq.mutex = NoThread
    /\ mq' = [mq EXCEPT !.mutex = p]
    /\ mq_thr' = [mq_thr EXCEPT !.pc[p] = "crit",
                                !.msg[p] = mq_thr.sent + 1,
                                !.sent = mq_thr.sent + 1]
    /\ UNCHANGED outsideMq

\* Queue::load: return push(msg)
MqLoadBody(p) ==
    /\ mq_thr.pc[p] = "crit"
    /\ mq.mutex = p
    /\ mq' = [mq EXCEPT !.msg_queue =
                  push(mq.msg_queue, mq.max_size, mq_thr.msg[p])]
    /\ mq_thr' = [mq_thr EXCEPT
                     !.ret[p] = pushResult(mq.msg_queue, mq.max_size),
                     !.pc[p] = "unlock"]
    /\ UNCHANGED outsideMq

\* Receiver::listen -> Queue::process: std::lock_guard lck{mutex}
MqProcessLock(r) ==
    /\ mq_thr.pc[r] = "idle"
    /\ mq.mutex = NoThread
    /\ mq' = [mq EXCEPT !.mutex = r]
    /\ mq_thr' = [mq_thr EXCEPT !.pc[r] = "crit"]
    /\ UNCHANGED outsideMq

\* Queue::process: if (msg_queue->empty()) return false; otherwise
\* msg = queue_manipulator->get(*msg_queue)
MqProcessGet(r) ==
    /\ mq_thr.pc[r] = "crit"
    /\ mq.mutex = r
    /\ mq_thr' = IF mq.msg_queue = <<>>
                   THEN [mq_thr EXCEPT !.ret[r] = FALSE, !.pc[r] = "unlock"]
                   ELSE [mq_thr EXCEPT
                            !.cand[r] = get(mq.queue_mode, mq.msg_queue),
                            !.pc[r] = "apply"]
    /\ mq' = mq
    /\ UNCHANGED outsideMq

\* Queue::process: if (reader(msg)) { pop(); return true; } return false;
MqProcessApply(r, reader) ==
    /\ mq_thr.pc[r] = "apply"
    /\ mq.mutex = r
    /\ mq' = [mq EXCEPT !.msg_queue =
                  after_reader(mq.queue_mode, mq.msg_queue,
                               reader[mq_thr.cand[r]])]
    /\ mq_thr' = [mq_thr EXCEPT !.ret[r] = reader[mq_thr.cand[r]],
                                !.pc[r] = "unlock"]
    /\ UNCHANGED outsideMq

\* ~lock_guard, and the call returns
MqUnlock(t) ==
    /\ mq_thr.pc[t] = "unlock"
    /\ mq.mutex = t
    /\ mq' = [mq EXCEPT !.mutex = NoThread]
    /\ mq_thr' = [mq_thr EXCEPT
                     !.pc[t] = "idle",
                     !.cand = [r \in Receivers |->
                                  IF r = t THEN NoMsg ELSE mq_thr.cand[r]]]
    /\ UNCHANGED outsideMq

\* Queue::set_size: max_size = size, without the mutex
MqSetSize(n) ==
    /\ mq' = [mq EXCEPT !.max_size = n]
    /\ UNCHANGED <<mq_thr, outsideMq>>

\* Queue::set_mode: queue_manipulator.reset(...), without the mutex
MqSetMode(mode) ==
    /\ mq' = [mq EXCEPT !.queue_mode = mode]
    /\ UNCHANGED <<mq_thr, outsideMq>>

MqNext ==
    \/ \E p \in Producers : MqLoadLock(p)
    \/ \E p \in Producers : MqLoadBody(p)
    \/ \E r \in Receivers : MqProcessLock(r)
    \/ \E r \in Receivers : MqProcessGet(r)
    \/ \E r \in Receivers, reader \in Readers : MqProcessApply(r, reader)
    \/ \E t \in Producers \cup Receivers : MqUnlock(t)
    \/ \E n \in 0..MaxSize : MqSetSize(n)
    \/ \E mode \in Mode : MqSetMode(mode)

MqSpec == MqInit /\ [][MqNext]_vars

(***************************************************************************)
(* Part 4: the policy-based Producer and Receiver of messageQueue.hpp.     *)
(* One thread calls Producer::send, one calls Receiver::listen (in its     *)
(* non-blocking form); both hold Producer::queue_rw through a              *)
(* std::lock_guard.  set_max_len, set_full_queue_policy, set_mode, attach  *)
(* and detach write their members without taking the mutex, at any time.   *)
(***************************************************************************)
\* enum class FullQueuePolicy
FullQueuePolicy == {"DO_NOTHING", "SUB_FRONT", "REMOVE_BACK", "THROW"}
\* std::deque<MessageType> values of bounded length
Containers == UNION {[1..n -> PolMsgs] : n \in 0..MaxLen}

\* mutant: the policy is applied only above max_queue_size
reached_max_above(q, n) == Len(q) > n
\* Producer::send: message_queue.size() >= max_queue_size
reached_max(q, n) == Len(q) >= n

\* mutant: SUB_FRONT overwrites the back element
sub_front_back(q, m) == [q EXCEPT ![Len(q)] = m]
\* apply_full_queue_policy, SUB_FRONT: message_queue.front() = message
sub_front(q, m) == [q EXCEPT ![1] = m]
\* mutant: REMOVE_BACK removes the front element
remove_back_front(q, m) == push_back(pop_front(q), m)
\* apply_full_queue_policy, REMOVE_BACK: message_queue.pop_back();
\* message_queue.push_back(message)
remove_back(q, m) == push_back(pop_back(q), m)

\* apply_full_queue_policy on an empty deque: front() and pop_back() have
\* undefined behaviour
policy_undefined(policy, q) ==
    q = <<>> /\ policy \in {"SUB_FRONT", "REMOVE_BACK"}
\* mutant: whatever the policy, the message is appended
apply_full_queue_policy_append(policy, q, m) == push_back(q, m)
\* Producer::apply_full_queue_policy: the container it leaves
apply_full_queue_policy(policy, q, m) ==
    CASE policy = "DO_NOTHING" -> q
      [] policy = "SUB_FRONT" -> sub_front(q, m)
      [] policy = "REMOVE_BACK" -> remove_back(q, m)
      [] policy = "THROW" -> q
\* mutant: THROW returns without an exception
policy_result_silent(policy) == "returned"
\* Producer::apply_full_queue_policy: how it ends
policy_result(policy) ==
    IF policy = "THROW" THEN "FullQueueException" ELSE "returned"

\* mutant: extract_message reads the front in both modes
extract_message_front(mode, q) == front(q)
\* Receiver::extract_message
extract_message(mode, q) == IF mode = "LIFO" THEN back(q) ELSE front(q)
\* Receiver::pop_message
pop_message(mode, q) ==
    IF mode = "LIFO" THEN pop_back(q)
    ELSE IF mode = "FIFO" THEN pop_front(q) ELSE q

PolInit ==
    /\ producer = NewProducer
    /\ receiver = NewReceiver
    /\ sender = NoSend
    /\ listener = NoListen
    /\ wiring = NoWiring
    /\ QueueUnused
    /\ SemUnused
    /\ MqUnused

\* Producer::set_max_len
SetMaxLen(n) ==
    /\ producer' = [producer EXCEPT !.max_queue_size = n]
    /\ UNCHANGED <<receiver, sender, listener, wiring, outsidePol>>

\* Producer::set_full_queue_policy
SetFullQueuePolicy(policy) ==
    /\ producer' = [producer EXCEPT !.full_queue_policy = policy]
    /\ UNCHANGED <<receiver, sender, listener, wiring, outsidePol>>

\* Producer::send(message): std::lock_guard grd{queue_rw}
SendLock(m) ==
    /\ sender.pc = "idle"
    /\ producer.queue_rw = NoThread
    /\ producer' = [producer EXCEPT !.queue_rw = "sender"]
    /\ sender' = [NoSend EXCEPT !.pc = "crit", !.message = m]
    /\ UNCHANGED <<receiver, listener, wiring, outsidePol>>

\* Producer::send: if (message_queue.size() >= max_queue_size)
\* apply_full_queue_policy(message); else message_queue.push_back(message);
SendBody ==
    /\ sender.pc = "crit"
    /\ producer.queue_rw = "sender"
    /\ \E q \in IF reached_max(producer.message_queue,
                               producer.max_queue_size)
                     /\ policy_undefined(producer.full_queue_policy,
                                         producer.message_queue)
                  THEN Containers ELSE {<<>>} :
         IF reached_max(producer.message_queue, producer.max_queue_size)
           THEN IF policy_undefined(producer.full_queue_policy,
                                    producer.message_queue)
                  THEN /\ producer' = [producer EXCEPT !.message_queue = q]
                       /\ sender' = [sender EXCEPT
                              !.pc = "unlock",
                              !.before = producer.message_queue,
                              !.result = "undefined"]
                  ELSE /\ producer' = [producer EXCEPT !.message_queue =
                              apply_full_queue_policy(
                                  producer.full_queue_policy,
                                  producer.message_queue, sender.message)]
                       /\ sender' = [sender EXCEPT
                              !.pc = "unlock",
                              !.before = producer.message_queue,
                              !.result =
                                  policy_result(producer.full_queue_policy)]
           ELSE /\ producer' = [producer EXCEPT !.message_queue =
                       push_back(producer.message_queue, sender.message)]
                /\ sender' = [sender EXCEPT
                       !.pc = "unlock",
                       !.before = producer.message_queue,
                       !.result = "returned"]
    /\ UNCHANGED <<receiver, listener, wiring, outsidePol>>

\* mutant: send is left with the mutex still locked
SendUnlock_leak ==
    /\ sender.pc = "unlock"
    /\ producer.queue_rw = "sender"
    /\ producer' = producer
    /\ sender' = NoSend
    /\ UNCHANGED <<receiver, listener, wiring, outsidePol>>

\* ~lock_guard, and send returns or the exception leaves it
SendUnlock ==
    /\ sender.pc = "unlock"
    /\ producer.queue_rw = "sender"
    /\ producer' = [producer EXCEPT !.queue_rw = NoThread]
    /\ sender' = NoSend
    /\ UNCHANGED <<receiver, listener, wiring, outsidePol>>

\* Producer::attach
Attach ==
    /\ receiver' = [receiver EXCEPT !.message_queue = TRUE, !.queue_rw = TRUE,
                                   !.is_detached = FALSE]
    /\ UNCHANGED <<producer, sender, listener, wiring, outsidePol>>

\* Receiver::detach
Detach ==
    /\ receiver' = [receiver EXCEPT !.message_queue = FALSE, !.queue_rw = FALSE,
                                   !.is_detached = TRUE]
    /\ UNCHANGED <<producer, sender, listener, wiring, outsidePol>>

\* Receiver::set_mode
ReceiverSetMode(mode) ==
    /\ receiver' = [receiver EXCEPT !.queue_mode = mode]
    /\ UNCHANGED <<producer, sender, listener, wiring, outsidePol>>

\* Receiver::listen on a detached receiver: return false, or throw
\* DetachedListenerException
ListenDetached ==
    /\ listener.pc = "idle"
    /\ receiver.is_detached
    /\ listener' = [NoListen EXCEPT
           !.pc = "return",
           !.result = IF receiver.empty_queue_policy = "DO_NOTHING"
                        THEN "false" ELSE "DetachedListenerException"]
    /\ UNCHANGED <<producer, receiver, sender, wiring, outsidePol>>

\* Receiver::listen -> get_message_non_blocking: std::lock_guard lck{*queue_rw}
ListenLock ==
    /\ listener.pc = "idle"
    /\ ~receiver.is_detached
    /\ producer.queue_rw = NoThread
    /\ producer' = [producer EXCEPT !.queue_rw = "listener"]
    /\ listener' = [NoListen EXCEPT !.pc = "crit"]
    /\ UNCHANGED <<receiver, sender, wiring, outsidePol>>

\* get_message_non_blocking: if (!message_queue->empty()) { message =
\* extract_message(); if (consumed(message)) pop_message(); return true; }
\* else return false or throw EmptyQueueException.  After a detach
\* message_queue is nullptr and the access has undefined behaviour.
ListenBody(consumed) ==
    /\ listener.pc = "crit"
    /\ producer.queue_rw = "listener"
    /\ \E q \in IF wired(receiver) THEN {<<>>} ELSE Containers :
         IF ~wired(receiver)
           THEN /\ producer' = [producer EXCEPT !.message_queue = q]
                /\ listener' = [listener EXCEPT
                       !.pc = "unlock",
                       !.before = producer.message_queue,
                       !.result = "undefined"]
           ELSE IF producer.message_queue /= <<>>
                  THEN /\ producer' = [producer EXCEPT !.message_queue =
                              IF consumed[extract_message(
                                     receiver.queue_mode,
                                     producer.message_queue)]
                                THEN pop_message(receiver.queue_mode,
                                                 producer.message_queue)
                                ELSE producer.message_queue]
                       /\ listener' = [listener EXCEPT
                              !.pc = "unlock",
                              !.before = producer.message_queue,
                              !.message = extract_message(
                                  receiver.queue_mode,
                                  producer.message_queue),
                              !.result = "true"]
                  ELSE /\ producer' = producer
                       /\ listener' = [listener EXCEPT
                              !.pc = "unlock",
                              !.result =
                                  IF receiver.empty_queue_policy
                                        = "DO_NOTHING"
                                    THEN "false"
                                    ELSE "EmptyQueueException"]
    /\ UNCHANGED <<receiver, sender, wiring, outsidePol>>

\* ~lock_guard, and listen returns or the exception leaves it
ListenUnlock ==
    /\ listener.pc = "unlock"
    /\ producer.queue_rw = "listener"
    /\ producer' = [producer EXCEPT !.queue_rw = NoThread]
    /\ listener' = NoListen
    /\ UNCHANGED <<receiver, sender, wiring, outsidePol>>

\* listen on a detached receiver returns
ListenReturn ==
    /\ listener.pc = "return"
    /\ listener' = NoListen
    /\ UNCHANGED <<producer, receiver, sender, wiring, outsidePol>>

PolNext ==
    \/ \E n \in 0..MaxLen : SetMaxLen(n)
    \/ \E policy \in FullQueuePolicy : SetFullQueuePolicy(policy)
    \/ \E m \in PolMsgs : SendLock(m)
    \/ SendBody
    \/ SendUnlock
    \/ Attach
    \/ Detach
    \/ \E mode \in Mode : ReceiverSetMode(mode)
    \/ ListenDetached
    \/ ListenLock
    \/ \E consumed \in Consumers : ListenBody(consumed)
    \/ ListenUnlock
    \/ ListenReturn

PolSpec == PolInit /\ [][PolNext]_vars

(***************************************************************************)
(* Part 5: the Receiver's life cycle and its blocking listen.  attach and  *)
(* detach are three writes each with no lock, by a thread other than the   *)
(* one inside listen; set_blocking writes the three settings; the blocking *)
(* listen polls the queue, tests its timeout after an empty poll and       *)
(* sleeps wait_time between polls.  Time is counted in ticks of the clock: *)
(* sleep_for lasts at least wait_time, and any amount of time may pass     *)
(* between two steps of a thread.                                          *)
(***************************************************************************)
\* the arguments of set_blocking
Timeouts == -1..MaxTimeout
WaitTimes == {DefaultWaitTime}
\* the longest time a listen call is followed for
MaxTime == MaxTimeout + DefaultWaitTime + 1
\* the messages sent while the life cycle is followed, and the containers
\* they can make
RcvMsgs == {"A"}
RcvContainers == UNION {[1..n -> RcvMsgs] : n \in 0..MaxLen}
\* the listen call is inside get_message_blocking
Blocking == {"get_message_blocking", "timeout", "sleep"}

\* mutant: attach leaves the flag set
attach_is_detached_true == TRUE
\* Producer::attach: receiver.is_detached = false;
attach_is_detached == FALSE
\* mutant: listen on a detached receiver always throws
detached_result_throw(policy) == "DetachedListenerException"
\* Receiver::listen: if (is_detached) { if (empty_queue_policy == DO_NOTHING)
\* return false; else throw DetachedListenerException{}; }
detached_result(policy) ==
    IF policy = "DO_NOTHING" THEN "false" ELSE "DetachedListenerException"
\* mutant: an empty queue always throws
empty_result_throw(policy) == "EmptyQueueException"
\* get_message_non_blocking on an empty queue: if (empty_queue_policy ==
\* DO_NOTHING) return false; else throw EmptyQueueException{};
empty_result(policy) ==
    IF policy = "DO_NOTHING" THEN "false" ELSE "EmptyQueueException"
\* mutant: the queue is never seen to hold a message
has_message_never(q) == FALSE
\* !message_queue->empty()
has_message(q) == q /= <<>>
\* mutant: every timeout is a deadline
has_deadline_always(timeout) == TRUE
\* get_message_blocking: timeout > 0 && ...
has_deadline(timeout) == timeout > 0
\* mutant: the deadline has passed only when more than timeout has elapsed
deadline_passed_late(timeout, elapsed) == elapsed > timeout
\* get_message_blocking: duration<float>(system_clock::now() - now).count()
\* >= timeout
deadline_passed(timeout, elapsed) == elapsed >= timeout

\* Producer::attach: receiver.set_message_queue(message_queue);
AttachSetQueue ==
    /\ wiring.pc = "idle"
    /\ receiver' = [receiver EXCEPT !.message_queue = TRUE]
    /\ wiring' = [wiring EXCEPT !.pc = "attach_mutex", !.attach_called = TRUE]
    /\ UNCHANGED <<producer, sender, listener, outsidePol>>

\* Producer::attach: receiver.set_mutex(queue_rw);
AttachSetMutex ==
    /\ wiring.pc = "attach_mutex"
    /\ receiver' = [receiver EXCEPT !.queue_rw = TRUE]
    /\ wiring' = [wiring EXCEPT !.pc = "attach_flag"]
    /\ UNCHANGED <<producer, sender, listener, outsidePol>>

\* Producer::attach: receiver.is_detached = false; and attach returns
AttachSetFlag ==
    /\ wiring.pc = "attach_flag"
    /\ receiver' = [receiver EXCEPT !.is_detached = attach_is_detached]
    /\ wiring' = [wiring EXCEPT !.pc = "idle"]
    /\ UNCHANGED <<producer, sender, listener, outsidePol>>

\* Receiver::detach: message_queue = nullptr;
DetachQueue ==
    /\ wiring.pc = "idle"
    /\ receiver' = [receiver EXCEPT !.message_queue = FALSE]
    /\ wiring' = [wiring EXCEPT !.pc = "detach_mutex"]
    /\ UNCHANGED <<producer, sender, listener, outsidePol>>

\* Receiver::detach: queue_rw = nullptr;
DetachMutex ==
    /\ wiring.pc = "detach_mutex"
    /\ receiver' = [receiver EXCEPT !.queue_rw = FALSE]
    /\ wiring' = [wiring EXCEPT !.pc = "detach_flag"]
    /\ UNCHANGED <<producer, sender, listener, outsidePol>>

\* Receiver::detach: is_detached = true; and detach returns
DetachFlag ==
    /\ wiring.pc = "detach_flag"
    /\ receiver' = [receiver EXCEPT !.is_detached = TRUE]
    /\ wiring' = [wiring EXCEPT !.pc = "idle", !.detach_called = TRUE]
    /\ UNCHANGED <<producer, sender, listener, outsidePol>>

\* Receiver::set_blocking, called by the listening thread between two listen
\* calls
SetBlocking(blocking, timeout, wait_time) ==
    /\ listener.pc = "idle"
    /\ receiver' = [receiver EXCEPT !.is_blocking = blocking,
                                    !.timeout = timeout,
                                    !.wait_time = wait_time]
    /\ UNCHANGED <<producer, sender, listener, wiring, outsidePol>>

\* Receiver::listen: the is_detached test, which returns or throws at once
\* (pc "detached"), then the choice between get_message_blocking (which
\* takes its start time) and get_message_non_blocking
Listen ==
    /\ listener.pc = "idle"
    /\ listener' =
         IF receiver.is_detached
           THEN [NoListen EXCEPT
                    !.pc = "detached",
                    !.result = detached_result(receiver.empty_queue_policy)]
           ELSE [NoListen EXCEPT
                    !.pc = IF receiver.is_blocking
                             THEN "get_message_blocking"
                             ELSE "get_message_non_blocking"]
    /\ UNCHANGED <<producer, receiver, sender, wiring, outsidePol>>

\* one locked look at the queue, in get_message_non_blocking or in an
\* iteration of get_message_blocking: lock *queue_rw; if
\* (!message_queue->empty()) { message = extract_message(); if
\* (consumed(message)) pop_message(); unlock; return true; } and on an empty
\* queue unlock, then the empty-queue policy (non-blocking) or the timeout
\* test (blocking).  A null queue_rw or message_queue is dereferenced all the
\* same: the behaviour is undefined.
GetMessage(consumed) ==
    /\ listener.pc \in {"get_message_blocking", "get_message_non_blocking"}
    /\ receiver.queue_rw => producer.queue_rw = NoThread
    /\ \E q \in IF wired(receiver) THEN {<<>>} ELSE RcvContainers :
         IF ~wired(receiver)
           THEN /\ producer' = [producer EXCEPT !.message_queue = q]
                /\ listener' = [listener EXCEPT
                       !.pc = "return",
                       !.result = "undefined"]
           ELSE IF has_message(producer.message_queue)
                  THEN /\ producer' = [producer EXCEPT !.message_queue =
                              IF consumed[extract_message(
                                     receiver.queue_mode,
                                     producer.message_queue)]
                                THEN pop_message(receiver.queue_mode,
                                                 producer.message_queue)
                                ELSE producer.message_queue]
                       /\ listener' = [listener EXCEPT
                              !.pc = "return",
                              !.message = extract_message(
                                  receiver.queue_mode,
                                  producer.message_queue),
                              !.result = "true"]
                  ELSE /\ producer' = producer
                       /\ listener' =
                            IF listener.pc = "get_message_blocking"
                              THEN [listener EXCEPT !.pc = "timeout"]
                              ELSE [listener EXCEPT
                                      !.pc = "return",
                                      !.result = empty_result(
                                          receiver.empty_queue_policy)]
    /\ UNCHANGED <<receiver, sender, wiring, outsidePol>>

\* get_message_blocking after an empty poll: if (timeout > 0 && elapsed >=
\* timeout) throw WaitTimeoutException{}; else sleep_for(wait_time)
CheckTimeout ==
    /\ listener.pc = "timeout"
    /\ listener' =
         IF /\ has_deadline(receiver.timeout)
            /\ deadline_passed(receiver.timeout, listener.elapsed)
           THEN [listener EXCEPT !.pc = "return",
                                 !.result = "WaitTimeoutException"]
           ELSE [listener EXCEPT !.pc = "sleep",
                                 !.sleep_left = receiver.wait_time]
    /\ UNCHANGED <<producer, receiver, sender, wiring, outsidePol>>

\* sleep_for returns once wait_time has passed, and the loop polls again
WakeUp ==
    /\ listener.pc = "sleep"
    /\ listener.sleep_left = 0
    /\ listener' = [listener EXCEPT !.pc = "get_message_blocking"]
    /\ UNCHANGED <<producer, receiver, sender, wiring, outsidePol>>

\* listen returns or its exception leaves it
Return ==
    /\ listener.pc \in {"detached", "return"}
    /\ listener' = NoListen
    /\ UNCHANGED <<producer, receiver, sender, wiring, outsidePol>>

\* the clock advances by one tick during a blocking listen
Tick ==
    /\ listener.pc \in Blocking
    /\ listener.elapsed < MaxTime \/ listener.sleep_left > 0
    /\ listener' = [listener EXCEPT
           !.elapsed = IF @ < MaxTime THEN @ + 1 ELSE @,
           !.sleep_left = IF @ > 0 THEN @ - 1 ELSE @]
    /\ UNCHANGED <<producer, receiver, sender, wiring, outsidePol>>

RcvNext ==
    \/ \E n \in 0..MaxLen : SetMaxLen(n)
    \/ \E m \in RcvMsgs : SendLock(m)
    \/ SendBody
    \/ SendUnlock
    \/ AttachSetQueue
    \/ AttachSetMutex
    \/ AttachSetFlag
    \/ DetachQueue
    \/ DetachMutex
    \/ DetachFlag
    \/ \E blocking \in BOOLEAN, timeout \in Timeouts, wait_time \in WaitTimes :
           SetBlocking(blocking, timeout, wait_time)
    \/ Listen
    \/ \E consumed \in Consumers : GetMessage(consumed)
    \/ CheckTimeout
    \/ WakeUp
    \/ Return
    \/ Tick

RcvSpec == PolInit /\ [][RcvNext]_vars

\* the scheduler runs the listening thread, the clock advances, and a thread
\* that keeps finding the mutex free at times eventually takes it
RcvFairness ==
    /\ SF_vars(\E consumed \in Consumers : GetMessage(consumed))
    /\ WF_vars(CheckTimeout)
    /\ WF_vars(WakeUp)
    /\ WF_vars(Return)
    /\ WF_vars(Tick)
    /\ WF_vars(SendBody)
    /\ WF_vars(SendUnlock)

RcvFairSpec == PolInit /\ [][RcvNext]_vars /\ RcvFairness

(***************************************************************************)
(* Properties of the two-semaphore Queue                                   *)
(***************************************************************************)
Workers == Producers \cup Receivers
\* the thread has completed its guard's acquire and not yet its release
GuardHeld(t) == pc[t] \in {"lock", "crit", "apply", "unlock", "release"}
\* no load or process call is in progress
Quiescent == \A t \in Workers : pc[t] = "idle"
\* the position at which push inserted m
PushIndex(m) == CHOOSE k \in 1..Len(pushed) : pushed[k] = m
\* the load that was passed message k has executed its push
Loaded(k) ==
    /\ k \in 1..sent
    /\ \A p \in Producers : msg[p] = k => pc[p] \in {"unlock", "release", "notify", "idle"}
\* the messages removed so far
RemovedMsgs == {removed[i][1] : i \in 1..Len(removed)}

\* C1: the number of stored messages is between 0 and max_size in every
\* reachable state, for any interleaving of load and process calls
C1_LenWithinCapacity == Len(msg_queue) >= 0 /\ Len(msg_queue) <= max_size

\* C1 witness: a load found the buffer holding max_size messages
C1_Witness ==
    /\ Len(msg_queue) = max_size
    /\ \E p \in Producers : pc[p] = "unlock" /\ ~ret[p]

\* C2: when no load or process call is in progress, count_full equals the
\* number of stored messages and count_empty equals max_size minus it
C2_CountsMatchOccupancy ==
    Quiescent =>
        /\ count_full = Len(msg_queue)
        /\ count_empty = max_size - Len(msg_queue)

\* C3 (as stated): count_full + count_empty = max_size in every state in
\* which the queue mutex is not held
C3_SumWheneverUnlocked ==
    mutex = NoThread => count_full + count_empty = max_size

\* C3 (amended): count_full + count_empty = max_size in every state in which
\* no load or process call is between its guard's acquire and its release
C3_SumWhenNoGuardHeld ==
    (\A t \in Workers : ~GuardHeld(t)) => count_full + count_empty = max_size

\* C3 witness: no guard is held after a rejected process and a refused load
\* have moved the counts away from the occupancy
C3_Witness ==
    /\ \A t \in Workers : ~GuardHeld(t)
    /\ rejected
    /\ msg_queue /= <<>>
    /\ count_full /= Len(msg_queue)
    /\ count_full + count_empty = max_size

\* C4: a process call increments count_empty in its release if and only if
\* the call removed a message (returned true)
C4_ReleaseEmptyIffRemoved ==
    [][\A r \in Receivers :
         (pc[r] = "release" /\ pc'[r] = "notify")
            => ((count_empty' = count_empty + 1) <=> ret[r])]_vars

\* C5: a load call increments count_full in its release only if the call
\* inserted its message (returned true)
C5_ReleaseFullOnlyIfInserted ==
    [][\A p \in Producers :
         (pc[p] = "release" /\ pc'[p] = "notify"
            /\ count_full' = count_full + 1) => ret[p]]_vars

\* C6: while the capacity is at least the number of messages sent and every
\* reader has accepted, no message is removed twice, every message whose
\* load has executed is either stored or removed, and whenever the producers
\* have returned and the receivers are left waiting, every message sent has
\* been removed exactly once
C6_AllReceivedOnce ==
    []((sent <= max_size /\ ~rejected) =>
        /\ \A i, j \in 1..Len(removed) :
              i /= j => removed[i][1] /= removed[j][1]
        /\ \A k \in Msgs :
              Loaded(k) => (k \in Range(msg_queue)) /= (k \in RemovedMsgs)
        /\ ((\A p \in Producers : pc[p] = "idle")
              /\ (\A r \in Receivers : pc[r] = "wait"))
             => /\ RemovedMsgs = 1..sent
                /\ Len(removed) = sent)

\* C6 witness: capacity for every message, no rejection, several messages
\* from both producers all removed in FIFO mode, the producers returned and
\* the receivers waiting
C6_Witness ==
    /\ sent <= max_size
    /\ sent = MaxMsgs
    /\ ~rejected
    /\ Len(removed) = sent
    /\ \A i \in 1..Len(removed) : removed[i][2] = "FIFO"
    /\ \A p \in Producers : pc[p] = "idle" /\ msg[p] /= NoMsg
    /\ \A r \in Receivers : pc[r] = "wait"

\* C7: messages removed in FIFO mode leave the queue in the order in which
\* they were inserted
C7_FifoOrder ==
    \A i, j \in 1..Len(removed) :
        (i < j /\ removed[i][2] = "FIFO" /\ removed[j][2] = "FIFO")
            => PushIndex(removed[i][1]) < PushIndex(removed[j][1])

\* C7 witness: process has just removed a second message in FIFO mode
\* while a later message is still stored
C7_Witness ==
    /\ Len(removed) >= 2
    /\ \A i \in 1..Len(removed) : removed[i][2] = "FIFO"
    /\ \E r \in Receivers : pc[r] = "unlock" /\ ret[r]
    /\ msg_queue /= <<>>

\* C8: in LIFO mode a process whose reader accepts is given, and removes,
\* the most recently inserted message still in the queue
C8_LifoTakesNewest ==
    [][\A r \in Receivers :
         (pc[r] = "apply" /\ pc'[r] = "unlock" /\ ret'[r]
            /\ queue_mode = "LIFO")
         => /\ \A m \in Range(msg_queue) : PushIndex(m) <= PushIndex(cand[r])
            /\ cand[r] \in Range(msg_queue)
            /\ msg_queue' = SelectSeq(msg_queue, LAMBDA m : m /= cand[r])
            /\ removed' = Append(removed, <<cand[r], "LIFO">>)]_vars

\* C8 witness: a process has just removed a message in LIFO mode from a
\* queue that held more than one message
C8_Witness ==
    /\ \E r \in Receivers : pc[r] = "unlock" /\ ret[r]
    /\ removed /= <<>>
    /\ removed[Len(removed)][2] = "LIFO"
    /\ msg_queue /= <<>>

\* C9: there is no state in which every producer and receiver thread is
\* blocked on count_empty, count_full or the queue mutex
C9_NoDeadlock ==
    ~(\A t \in Workers :
         \/ pc[t] = "wait"
         \/ (pc[t] = "lock" /\ mutex \in Workers \ {t}))

\* C9 witness: a producer is blocked on count_empty while a receiver is
\* blocked on the queue mutex
C9_Witness ==
    /\ \E p \in Producers : pc[p] = "wait" /\ count_empty = 0
    /\ \E r \in Receivers : pc[r] = "lock" /\ mutex \in Workers \ {r}

\* C11 (as stated): a process call made while the buffer holds no message
\* returns false to its caller
C11_EmptyProcessReturnsFalse ==
    \A r \in Receivers :
        (pc[r] = "acquire" /\ msg_queue = <<>>)
            ~> (pc[r] = "idle" /\ ~ret[r])

\* C11 (amended): a process call made while the buffer holds no message
\* does not return false: while the buffer is empty count_full is 0 and the
\* call stays in its guard's acquire, and no call is between its acquire and
\* its reader while the buffer is empty
C11_EmptyProcessBlocks ==
    \A r \in Receivers :
        /\ (msg_queue = <<>> /\ pc[r] \in {"idle", "acquire", "wait"})
              => count_full = 0
        /\ pc[r] \in {"lock", "crit", "apply"} => msg_queue /= <<>>

\* C11 witness: after the messages loaded have been removed a process call
\* is blocked in acquire on the empty buffer, with no load in progress
C11_Witness ==
    /\ msg_queue = <<>>
    /\ removed /= <<>>
    /\ \E r \in Receivers : pc[r] = "wait"
    /\ \A p \in Producers : pc[p] = "idle"

(***************************************************************************)
(* Properties of the mutex-only Queue                                      *)
(***************************************************************************)
\* C12: a process whose reader rejects the message at the extraction end of
\* a non-empty buffer returns false and leaves the buffer with the same
\* messages in the same order
C12_RejectLeavesBuffer ==
    [][\A r \in Receivers, reader \in Readers :
         (MqProcessApply(r, reader) /\ ~reader[mq_thr.cand[r]])
            => /\ mq.msg_queue /= <<>>
               /\ mq_thr.cand[r] \in Range(mq.msg_queue)
               /\ ~mq_thr'.ret[r]
               /\ mq'.msg_queue = mq.msg_queue]_vars

\* C12 witness: a reader has just rejected the message it was given and the
\* buffer holds several messages
C12_Witness ==
    \E r \in Receivers :
        /\ mq_thr.pc[r] = "unlock"
        /\ mq_thr.cand[r] /= NoMsg
        /\ ~mq_thr.ret[r]
        /\ Len(mq.msg_queue) >= 2

\* C13: load returns true exactly when it appended its message behind the
\* stored messages, which it left in their order; it returns false exactly
\* when the buffer already held max_size messages, and then the buffer is
\* unchanged
C13_LoadAppendsOrRefuses ==
    [][\A p \in Producers :
         MqLoadBody(p)
            => /\ mq_thr'.ret[p]
                    <=> mq'.msg_queue = Append(mq.msg_queue, mq_thr.msg[p])
               /\ ~mq_thr'.ret[p] <=> Len(mq.msg_queue) = mq.max_size
               /\ ~mq_thr'.ret[p] => mq'.msg_queue = mq.msg_queue]_vars

\* C13 witness: a load that found the buffer holding max_size messages has
\* been refused and has left the messages stored as they were
C13_Witness ==
    \E p \in Producers :
        /\ mq_thr.pc[p] = "unlock"
        /\ ~mq_thr.ret[p]
        /\ Len(mq.msg_queue) = mq.max_size
        /\ Len(mq.msg_queue) >= 2
        /\ mq_thr.msg[p] \notin Range(mq.msg_queue)

\* C20: after the capacity was changed with set_size, every load leaves the
\* number of stored messages at most max_size, and a load that finds at
\* least max_size messages stored does not insert its message
C20_CapacityHoldsAfterSetSize ==
    [][\A p \in Producers :
         MqLoadBody(p)
            => /\ Len(mq'.msg_queue) <= mq'.max_size
               /\ Len(mq.msg_queue) >= mq.max_size
                     => mq'.msg_queue = mq.msg_queue]_vars

(***************************************************************************)
(* Properties of the policy-based Producer and Receiver                    *)
(***************************************************************************)
\* C14 (as stated): under DO_NOTHING a send to a queue that holds its
\* maximum number of messages (max_queue_size > 0) leaves the queue as it is, discards the
\* message and reports the failure to the caller
C14_DropReportsFailure ==
    [][(SendBody /\ producer.full_queue_policy = "DO_NOTHING"
          /\ producer.max_queue_size > 0
          /\ Len(producer.message_queue) >= producer.max_queue_size)
         => /\ producer'.message_queue = producer.message_queue
            /\ sender'.result /= "returned"]_vars

\* C14 (amended): under DO_NOTHING a send to a queue that holds its maximum
\* number of messages (max_queue_size > 0) leaves the queue as it is, discards the message and
\* returns normally, without any report to the caller
C14_DropIsSilent ==
    [][(SendBody /\ producer.full_queue_policy = "DO_NOTHING"
          /\ producer.max_queue_size > 0
          /\ Len(producer.message_queue) >= producer.max_queue_size)
         => /\ producer'.message_queue = producer.message_queue
            /\ sender'.result = "returned"]_vars

\* C14 witness: under DO_NOTHING a send to a queue holding max_queue_size = 2
\* messages has left it as it was, without the incoming message
C14_Witness ==
    /\ sender.pc = "unlock"
    /\ producer.full_queue_policy = "DO_NOTHING"
    /\ producer.max_queue_size = 2
    /\ Len(sender.before) = 2
    /\ producer.message_queue = sender.before
    /\ sender.message \notin Range(producer.message_queue)
    /\ sender.result = "returned"

C17_ThrowLeavesQueue ==
    [][(SendBody /\ producer.full_queue_policy = "THROW"
          /\ Len(producer.message_queue) >= producer.max_queue_size)
         => /\ sender'.result = "FullQueueException"
            /\ producer'.message_queue = producer.message_queue]_vars

\* C17 witness: a send to a queue holding max_queue_size = 2 messages under
\* THROW is leaving with FullQueueException
C17_Witness ==
    /\ sender.pc = "unlock"
    /\ sender.result = "FullQueueException"
    /\ producer.max_queue_size = 2
    /\ Len(sender.before) = 2
    /\ producer.message_queue = sender.before
    /\ sender.message \notin Range(producer.message_queue)

C19_ZeroMeansUnbounded ==
    [][(SendBody /\ producer.max_queue_size = 0)
         => /\ producer'.message_queue =
                  Append(producer.message_queue, sender.message)
            /\ sender'.result = "returned"]_vars

(***************************************************************************)
(* Properties of the Receiver's life cycle and of the blocking listen      *)
(***************************************************************************)
\* some consumed makes the step a GetMessage step
Polls == \E consumed \in Consumers : GetMessage(consumed)

C22_NeverPartiallyWired ==
    /\ receiver.message_queue <=> receiver.queue_rw
    /\ receiver.is_detached <=> ~receiver.message_queue

\* C23: once detach has been called, nothing brings the handle back to
\* Attached
C23_DetachIsFinal ==
    wiring.detach_called => ~(wired(receiver) /\ ~receiver.is_detached)

\* C23 (amended): only Producer::attach takes a handle out of the detached
\* state, and it does so for a handle that was detached before as for a new
\* one: when attach returns both references are set and is_detached is false
C23_OnlyAttachReattaches ==
    /\ [][AttachSetFlag => (wired(receiver') /\ ~receiver'.is_detached)]_vars
    /\ [][(receiver.is_detached /\ ~receiver'.is_detached)
            => AttachSetFlag]_vars

\* C23 witness: detach has returned and a later attach has made the same
\* handle attached again
C23_Witness ==
    /\ wiring.detach_called
    /\ wiring.pc = "idle"
    /\ wired(receiver)
    /\ ~receiver.is_detached

C25_DetachEndsBlockingListen ==
    [][(Polls /\ listener.pc = "get_message_blocking"
           /\ receiver.is_detached /\ ~receiver.message_queue
           /\ ~receiver.queue_rw)
         => /\ listener'.pc = "return"
            /\ listener'.result \in {"false", "DetachedListenerException"}
            /\ producer' = producer]_vars

\* C26: a non-blocking listen on an attached receiver whose queue is empty
\* looks once and returns false under DO_NOTHING, raises EmptyQueueException
\* under THROW; the queue stays empty
C26_EmptyNonBlockingListen ==
    [][(Polls /\ listener.pc = "get_message_non_blocking"
           /\ wired(receiver) /\ producer.message_queue = <<>>)
         => /\ listener'.pc = "return"
            /\ listener'.result =
                  IF receiver.empty_queue_policy = "DO_NOTHING"
                    THEN "false" ELSE "EmptyQueueException"
            /\ listener'.message = NoMessage
            /\ producer' = producer]_vars

\* C26 witness: a non-blocking listen has found the attached queue empty and
\* answered false
C26_Witness ==
    /\ wired(receiver)
    /\ producer.message_queue = <<>>
    /\ producer.max_queue_size > 0
    /\ listener.pc = "return"
    /\ listener.result = "false"

C28_TimeoutWithinOnePoll ==
    /\ [][\A consumed \in Consumers :
            (GetMessage(consumed) /\ listener.pc = "get_message_blocking"
                /\ wired(receiver) /\ receiver.timeout > 0
                /\ listener'.result = "true")
              => consumed[listener'.message]]_vars
    /\ [][(CheckTimeout /\ listener'.result = "WaitTimeoutException")
            => /\ listener.elapsed >= receiver.timeout
               /\ listener.elapsed <= receiver.timeout
                                         + receiver.wait_time]_vars

\* C28 (amended): WaitTimeoutException is raised only by the timeout test
\* that follows an empty poll, and that test raises it exactly when timeout
\* is positive and at least timeout has elapsed since the call began: never
\* before T.  A poll that finds a message ends the call with true whether
\* or not consumed accepts the message, which only decides its removal.
C28_TimeoutNotBeforeDeadline ==
    /\ [][CheckTimeout
            => ((listener'.result = "WaitTimeoutException")
                  <=> (receiver.timeout > 0
                         /\ listener.elapsed >= receiver.timeout))]_vars
    /\ [][(listener'.result = "WaitTimeoutException"
              /\ listener.result /= "WaitTimeoutException")
            => CheckTimeout]_vars
    /\ [][\A consumed \in Consumers :
            (GetMessage(consumed) /\ listener.pc = "get_message_blocking"
                /\ wired(receiver) /\ producer.message_queue /= <<>>)
              => /\ listener'.result = "true"
                 /\ producer'.message_queue =
                      IF consumed[listener'.message]
                        THEN pop_message(receiver.queue_mode,
                                         producer.message_queue)
                        ELSE producer.message_queue]_vars

\* C28 witness: the exception has been raised with exactly timeout elapsed
C28_Witness ==
    /\ listener.pc = "return"
    /\ listener.result = "WaitTimeoutException"
    /\ receiver.timeout > 0
    /\ listener.elapsed = receiver.timeout

\* C29: a blocking listen returns a message that is in the queue before the
\* deadline: under fair scheduling the call then ends with true, unless the
\* receiver is detached meanwhile
C29_MessageBeforeDeadlineReturned ==
    (/\ listener.pc \in Blocking
     /\ wired(receiver)
     /\ producer.message_queue /= <<>>
     /\ (receiver.timeout <= 0 \/ listener.elapsed < receiver.timeout))
        ~> (listener.result = "true" \/ ~wired(receiver))

\* C29 (amended): a poll of a blocking listen that finds a message returns
\* true with the message at the extraction end and raises nothing; under
\* fair scheduling a blocking listen whose queue holds a message ends, with
\* true at its next poll, or with WaitTimeoutException when the message
\* arrived after the last poll and the timeout test that follows that poll
\* finds the deadline passed
C29_MessageEndsBlockingListen ==
    /\ [][(Polls /\ listener.pc = "get_message_blocking"
              /\ wired(receiver) /\ producer.message_queue /= <<>>)
            => /\ listener'.pc = "return"
               /\ listener'.result = "true"
               /\ listener'.message =
                     extract_message(receiver.queue_mode,
                                     producer.message_queue)]_vars
    /\ (/\ listener.pc \in Blocking
        /\ wired(receiver)
        /\ producer.message_queue /= <<>>)
          ~> (\/ listener.result \in {"true", "WaitTimeoutException"}
              \/ ~wired(receiver))

\* C29 witness: a message has arrived while the blocking listen was asleep
\* after an empty poll
C29_Witness ==
    /\ listener.pc = "sleep"
    /\ wired(receiver)
    /\ producer.message_queue /= <<>>

(***************************************************************************)
(* Properties of the stand-alone Semaphore                                 *)
(***************************************************************************)
\* C10: no lost wakeup: a thread blocked in acquire() while slots > 0 does
\* not stay blocked forever; it completes acquire() unless slots is taken
\* back to 0 by other threads
C10_NoLostWakeup ==
    \A t \in SemThreads :
        (sem_pc[t] = "wait" /\ slots > 0)
            ~> (sem_pc[t] = "idle" \/ slots = 0)

\* C10 witness: a thread is blocked in cv.wait and release() has made a
\* slot available
C10_Witness == \E t \in SemThreads : sem_pc[t] = "wait" /\ slots > 0

\* C30: a Semaphore constructed with slots <= max_slots keeps
\* 0 <= slots <= max_slots in every reachable state: acquire() completes
\* only when slots > 0 and takes exactly one slot, blocks and leaves slots
\* alone when slots is 0, and release() never raises slots above max_slots
C30_SlotsWithinBounds ==
    /\ [](0 <= slots /\ slots <= max_slots)
    /\ [][\A t \in SemThreads :
            /\ (SemAcquire(t) /\ sem_pc'[t] = "idle")
                  => (slots > 0 /\ slots' = slots - 1)
            /\ (SemAcquire(t) /\ slots = 0)
                  => (sem_pc'[t] = "wait" /\ slots' = 0)
            /\ SemRelease(t)
                  => /\ slots' <= max_slots
                     /\ slots' = IF slots = max_slots
                                    THEN slots ELSE slots + 1]_vars

\* C30 witness: with one slot at most, a thread still blocked in acquire()
\* has taken nothing, and two release() calls have passed their increment:
\* the second one found slots = max_slots and left it there
C30_Witness ==
    /\ max_slots = 1
    /\ slots = max_slots
    /\ \E t, u, w \in SemThreads :
          /\ t /= u
          /\ sem_pc[t] = "notify"
          /\ sem_pc[u] = "notify"
          /\ sem_pc[w] = "wait"

(***************************************************************************)
(* Properties of the guard's protocol in the two-semaphore Queue           *)
(***************************************************************************)
\* C31: the guard acquires its first semaphore before it takes the queue
\* mutex and releases the mutex before it releases its second semaphore: a
\* thread holds the mutex only after its acquire has completed and before
\* its release begins, so no thread that is in, or blocked in,
\* Semaphore::acquire or Semaphore::release holds the queue mutex
C31_NoSemaphoreWaitUnderMutex ==
    \A t \in Workers :
        /\ pc[t] \in {"idle", "acquire", "wait", "lock", "release", "notify"}
              => mutex /= t
        /\ mutex = t => pc[t] \in {"crit", "apply", "unlock"}

\* C31 witness: a receiver is blocked in count_full.acquire() while a
\* producer that has passed count_empty.acquire() holds the mutex
C31_Witness ==
    \E r \in Receivers, p \in Producers :
        /\ pc[r] = "wait"
        /\ pc[p] = "crit"
        /\ mutex = p

\* the threads that are inside a critical section of the queue mutex
InCritical == {t \in Threads : pc[t] \in {"crit", "apply", "unlock"}}

\* C32: every insert, peek and remove on the buffer is made by a thread that
\* holds the queue mutex, and at most one thread at a time is inside a
\* critical section, whatever the producers and receivers do
C32_BufferOnlyUnderMutex ==
    /\ [](\A t \in InCritical : mutex = t)
    /\ [](Cardinality(InCritical) <= 1)
    /\ [][msg_queue' /= msg_queue
            => \E t \in Workers :
                  /\ mutex = t
                  /\ mutex' = t
                  /\ pc[t] \in {"crit", "apply"}
                  /\ \A u \in Threads \ {t} : pc'[u] = pc[u]]_vars
    /\ [][\A r \in Receivers :
            (cand'[r] /= cand[r]) => (mutex = r /\ mutex' = r)]_vars

\* C32 witness: a receiver is between its peek and its pop, with the mutex,
\* while both producers have passed count_empty.acquire() and wait for the
\* mutex
C32_Witness ==
    \E r \in Receivers :
        /\ pc[r] = "apply"
        /\ mutex = r
        /\ \A p \in Producers : pc[p] = "lock"

(***************************************************************************)
(* Properties of set_mode                                                  *)
(***************************************************************************)
\* C33: set_mode replaces the extraction strategy while it holds the queue
\* mutex, so the strategy does not change between the peek and the pop of a
\* process call, and the message process removes is the message it passed
\* to the predicate
C33_PredicateSeesRemovedMessage ==
    /\ [][\A r \in Receivers :
            mq_thr.pc[r] = "apply" => mq'.queue_mode = mq.queue_mode]_vars
    /\ [][\A r \in Receivers, reader \in Readers :
            (MqProcessApply(r, reader) /\ reader[mq_thr.cand[r]])
               => Popped(mq.msg_queue, mq'.msg_queue)
                     = <<mq_thr.cand[r]>>]_vars

\* C34: set_mode(m) leaves the stored messages, their order, the capacity
\* and both semaphore counts as they are; when it returns the manipulator's
\* mode, which mode() returns, is m; the mode changes in no other step; and
\* a dequeue reads the end of the buffer that the mode in force selects
C34_SetModeOnlyChangesMode ==
    [][/\ pc'[Controller] = pc[Controller] => queue_mode' = queue_mode
       /\ pc'[Controller] /= pc[Controller]
             => /\ msg_queue' = msg_queue
                /\ count_full' = count_full
                /\ count_empty' = count_empty
                /\ max_size' = max_size
                /\ pc[Controller] = "idle" => queue_mode' = queue_mode
                /\ pc[Controller] = "crit"
                      => \A m \in Mode : SetModeBody(m) => queue_mode' = m
       /\ \A r \in Receivers :
             (pc[r] = "crit" /\ pc'[r] = "apply")
                => cand'[r] = IF queue_mode = "FIFO"
                                THEN msg_queue[1]
                                ELSE msg_queue[Len(msg_queue)]]_vars

\* C34 witness: after set_mode(FIFO) on a buffer of two messages at least
\* with slots in both semaphores, a process call has read the front
C34_Witness ==
    /\ queue_mode = "FIFO"
    /\ pc[Controller] = "idle"
    /\ Len(msg_queue) >= 2
    /\ \E r \in Receivers :
          /\ pc[r] = "apply"
          /\ cand[r] = msg_queue[1]
          /\ cand[r] /= msg_queue[Len(msg_queue)]

(***************************************************************************)
(* Properties of Receiver::listen and Producer::send as calls              *)
(***************************************************************************)
\* C35: listen on an attached receiver whose queue is not empty copies the
\* message at the extraction end (the back under LIFO, the front under
\* FIFO) into the caller's output and returns true; it removes that message
\* exactly when consumed(message) is true, and leaves the queue as it was
\* when consumed(message) is false
C35_ListenCopiesAndPopsIfConsumed ==
    [][\A consumed \in Consumers :
         (ListenBody(consumed) /\ wired(receiver)
             /\ producer.message_queue /= <<>>)
           => LET q == producer.message_queue
                  m == IF receiver.queue_mode = "LIFO"
                         THEN q[Len(q)] ELSE q[1]
              IN  /\ listener'.result = "true"
                  /\ listener'.message = m
                  /\ consumed[m]
                        => producer'.message_queue =
                              IF receiver.queue_mode = "LIFO"
                                THEN SubSeq(q, 1, Len(q) - 1)
                                ELSE SubSeq(q, 2, Len(q))
                  /\ ~consumed[m]
                        => producer'.message_queue = q]_vars

\* C35 witness: under LIFO a listen has found two different messages,
\* copied the back one and removed it
C35_Witness ==
    /\ listener.pc = "unlock"
    /\ listener.result = "true"
    /\ receiver.queue_mode = "LIFO"
    /\ Len(listener.before) = 2
    /\ listener.before[1] /= listener.before[2]
    /\ listener.message = listener.before[2]
    /\ producer.message_queue = <<listener.before[1]>>

(***************************************************************************)
(* Properties of the slot accounting in the two-semaphore Queue            *)
(***************************************************************************)
\* the threads between their guard's acquire and its release
Holders == {t \in Workers : GuardHeld(t)}

\* C36: in every reachable state count_full + count_empty plus the number
\* of threads that have completed their guard's acquire and not yet its
\* release equals max_size; consequently every release through the Queue
\* finds slots < max_slots and increments: the clamping branch of
\* Semaphore::release is never taken
C36_SlotsConserved ==
    /\ count_full + count_empty + Cardinality(Holders) = max_size
    /\ \A p \in Producers : pc[p] = "release" => count_full < max_size
    /\ \A r \in Receivers : pc[r] = "release" => count_empty < max_size

\* C36 witness: after a rejected process has moved the counts away from the
\* occupancy, three threads are inside their guards, every slot of a queue
\* of capacity three is with a thread, and both semaphores are at zero
C36_Witness ==
    /\ rejected
    /\ max_size = 3
    /\ Cardinality(Holders) = 3
    /\ count_full = 0
    /\ count_empty = 0

\* C37: a load called while the buffer holds max_size messages waits in its
\* guard until a message has been removed: Queue::push never finds the
\* buffer full, and no load returns false, after any load and process calls
\* with any predicates
C37_PushNeverSeesFull ==
    [][\A p \in Producers :
         LoadBody(p) => (Len(msg_queue) < max_size /\ ret'[p])]_vars

\* C38: a process call made while the buffer holds a message does not stay
\* blocked in count_full.acquire(): under fair scheduling it gets past its
\* guard's acquire, also after earlier process calls whose predicate
\* rejected the message
C38_ProcessNotStarved ==
    \A r \in Receivers :
        (pc[r] \in {"acquire", "wait"} /\ msg_queue /= <<>>)
            ~> (pc[r] \notin {"acquire", "wait"})

JustConstructed ==
    /\ \A t \in Workers : pc[t] = "idle"
    /\ sent = Len(msg_queue)
    /\ pushed = <<>>
    /\ removed = <<>>
    /\ ~rejected

\* C40: right after the Queue has been constructed from a container that
\* holds k messages, count_full is k and count_empty is max_size - k, so a
\* process call made before any load finds a slot in count_full whenever
\* the container was not empty
C40_PreloadedCounted ==
    /\ [](JustConstructed
            => /\ count_full = Len(msg_queue)
               /\ count_empty = max_size - Len(msg_queue))
    /\ [][\A r \in Receivers :
            (AcquireFull(r) /\ pushed = <<>> /\ msg_queue /= <<>>)
               => pc'[r] = "lock"]_vars

====
